---- MODULE Spec2Model ----
(***************************************************************************)
(* Expense dashboard (ExpenseDashboard component) and its creation form    *)
(* (AddExpenseModal).  The dashboard keeps the expense list in React state *)
(* and mirrors it into AsyncStorage under the single key 'expenses'.       *)
(*                                                                         *)
(* Text is modelled as a sequence of one-character strings, so that trim,  *)
(* parseFloat and the date mask are computed and not assumed.  A JS number *)
(* is a record [k, v]: k = "num" with v in hundredths, k = "inf" with v    *)
(* the sign, k = "nan", or k = "null" for a JSON null read back.           *)
(***************************************************************************)
EXTENDS Integers, Sequences, FiniteSets, TLC

VARIABLES expenses, loading, refreshing, modalVisible, loadPc, storage,
          writes, confirm, alert, last

vars == <<expenses, loading, refreshing, modalVisible, loadPc, storage,
          writes, confirm, alert, last>>

\* ------------------------------------------------------------------ bounds
MaxLen == 2

MaxClock == 1

\* readings Date.now() / new Date() can return (wall clock, not monotonic)
Clock == 0..MaxClock

\* -------------------------------------------------------------------- text
Empty == <<>>

WhiteSpace == {" ", "\n", "\t"}

Digits == {"0", "1", "2", "3", "4", "5", "6", "7", "8", "9"}

DigitVal(c) ==
  CASE c = "0" -> 0 [] c = "1" -> 1 [] c = "2" -> 2 [] c = "3" -> 3
    [] c = "4" -> 4 [] c = "5" -> 5 [] c = "6" -> 6 [] c = "7" -> 7
    [] c = "8" -> 8 [] c = "9" -> 9

MinOf(S) == CHOOSE x \in S : \A y \in S : x <= y

MaxOf(S) == CHOOSE x \in S : \A y \in S : x >= y

\* String.prototype.trim
trim(s) ==
  LET solid == {i \in 1..Len(s) : s[i] \notin WhiteSpace}
  IN  IF solid = {} THEN Empty ELSE SubSeq(s, MinOf(solid), MaxOf(solid))

\* index of the first character at or after from that is not in S
\* (Len(s) + 1 when there is none)
SkipWhile(s, from, S) ==
  LET stops == {i \in from..Len(s) : s[i] \notin S}
  IN  IF stops = {} THEN Len(s) + 1 ELSE MinOf(stops)

StartsWith(s, from, w) ==
  /\ from + Len(w) - 1 <= Len(s)
  /\ SubSeq(s, from, from + Len(w) - 1) = w

RECURSIVE DigitsValue(_)
DigitsValue(ds) ==
  IF ds = Empty THEN 0
  ELSE 10 * DigitsValue(SubSeq(ds, 1, Len(ds) - 1)) + DigitVal(ds[Len(ds)])

InfinityText == <<"I", "n", "f", "i", "n", "i", "t", "y">>

NaN == [k |-> "nan", v |-> 0]

Null == [k |-> "null", v |-> 0]

\* The scan parseFloat performs: leading white space, an optional sign, then
\* either the word Infinity or digits with an optional fraction; whatever
\* follows is ignored.  Returns the value and the index after the last
\* character consumed.  (Exponents are not scanned; fractions keep two
\* digits.)
ScanFloat(s) ==
  LET start  == SkipWhile(s, 1, WhiteSpace)
      signed == start <= Len(s) /\ s[start] \in {"-", "+"}
      sign   == IF signed /\ s[start] = "-" THEN -1 ELSE 1
      body   == IF signed THEN start + 1 ELSE start
      intEnd == SkipWhile(s, body, Digits)
      dotted == intEnd <= Len(s) /\ s[intEnd] = "."
      frcEnd == IF dotted THEN SkipWhile(s, intEnd + 1, Digits) ELSE intEnd
      intDs  == SubSeq(s, body, intEnd - 1)
      frcDs  == IF dotted THEN SubSeq(s, intEnd + 1, frcEnd - 1) ELSE Empty
      frc2   == SubSeq(frcDs \o <<"0", "0">>, 1, 2)
  IN  IF StartsWith(s, body, InfinityText)
        THEN [num |-> [k |-> "inf", v |-> sign], end |-> body + Len(InfinityText)]
      ELSE IF intDs = Empty /\ frcDs = Empty
        THEN [num |-> NaN, end |-> 1]
      ELSE [num |-> [k |-> "num",
                     v |-> sign * (100 * DigitsValue(intDs) + DigitsValue(frc2))],
            end |-> frcEnd]

parseFloat(s) == ScanFloat(s).num

isNaN(n) == n.k = "nan"

\* n <= 0 on JS numbers (false for NaN)
LeqZero(n) ==
  \/ n.k = "num" /\ n.v <= 0
  \/ n.k = "inf" /\ n.v < 0
  \/ n.k = "null"

\* n > 0 on JS numbers (null converts to 0)
GtZero(n) ==
  \/ n.k = "num" /\ n.v > 0
  \/ n.k = "inf" /\ n.v > 0

\* AddExpenseModal.formatDate: the MM/DD/YYYY mask applied by handleDateChange
formatDate(text) ==
  LET cleaned == SelectSeq(text, LAMBDA c : c \in Digits)
      n  == Len(cleaned)
      m1 == SubSeq(cleaned, 1, IF n < 2 THEN n ELSE 2)
      m2 == SubSeq(cleaned, 3, IF n < 4 THEN n ELSE 4)
      m3 == SubSeq(cleaned, 5, n)
  IN  IF n <= 8
        THEN m1 \o (IF m2 # Empty THEN <<"/">> \o m2 ELSE Empty)
                \o (IF m3 # Empty THEN <<"/">> \o m3 ELSE Empty)
        ELSE text

\* ------------------------------------------------------------- form inputs
\* names of the quick-selection buttons
categories ==
  << <<"F", "o", "o", "d">>,
     <<"T", "r", "a", "n", "s", "p", "o", "r", "t">>,
     <<"S", "h", "o", "p", "p", "i", "n", "g">>,
     <<"E", "n", "t", "e", "r", "t", "a", "i", "n", "m", "e", "n", "t">>,
     <<"H", "e", "a", "l", "t", "h">>,
     <<"B", "i", "l", "l", "s">>,
     <<"E", "d", "u", "c", "a", "t", "i", "o", "n">>,
     <<"O", "t", "h", "e", "r">> >>

\* texts the amount field can hold (onChangeText = setAmount)
AmountTexts ==
  { Empty, <<"a">>, <<"0">>, <<"-", "1">>, <<"1">>, <<"1", ".", ".">>,
    InfinityText }

\* values the category state can hold: nothing selected, a button
\* (selectCategory), or the text typed in the custom field shown for 'Other'
CategoryTexts == { Empty, categories[1], <<" ">> }

\* texts typed in the date field (maxLength 10), before the mask
DateTexts == { Empty, <<"1", "2", "3">> }

\* texts the description field can hold (onChangeText = setDescription)
DescriptionTexts == { Empty, <<" ", "a", " ">> }

FormDates == { formatDate(t) : t \in DateTexts }

\* ----------------------------------------------------------------- storage
NoValue == [k |-> "none", v |-> <<>>]

Corrupt == [k |-> "corrupt", v |-> <<>>]

\* JSON.stringify of a number: NaN and the infinities are written as null
StringifyNumber(n) == IF n.k = "num" THEN n ELSE Null

\* JSON.stringify(newExpenses): the text stored under 'expenses'
JSONstringify(list) ==
  [k |-> "json",
   v |-> [i \in 1..Len(list) |->
            [list[i] EXCEPT !.amount = StringifyNumber(list[i].amount)]]]

\* JSON.parse(storedExpenses) for a text written by JSONstringify
JSONparse(text) == text.v

\* Array.prototype.sort((a, b) => new Date(b.timestamp) - new Date(a.timestamp)):
\* stable, newest first
RECURSIVE SortNewestFirst(_)
SortNewestFirst(list) ==
  IF list = <<>> THEN <<>>
  ELSE LET sortedInit == SortNewestFirst(SubSeq(list, 1, Len(list) - 1))
           x    == list[Len(list)]
           keep == {i \in 1..Len(sortedInit) : sortedInit[i].timestamp >= x.timestamp}
           p    == IF keep = {} THEN 0 ELSE MaxOf(keep)
       IN  SubSeq(sortedInit, 1, p) \o <<x>> \o SubSeq(sortedInit, p + 1, Len(sortedInit))

NoConfirm == [open |-> FALSE, id |-> 0, expenses |-> <<>>]

\* ------------------------------------------------------------------- state
\* After the first render and its mount effect: the list is empty, the
\* loading screen is shown and the first getItem is in flight.  Storage holds
\* nothing, or holds a payload left by something else that JSON.parse rejects.
Init ==
  /\ expenses = <<>>
  /\ loading = TRUE
  /\ refreshing = FALSE
  /\ modalVisible = FALSE
  /\ loadPc = "mount"
  /\ storage \in {NoValue, Corrupt}
  /\ writes = <<>>
  /\ confirm = NoConfirm
  /\ alert = "none"
  /\ last = "mount"

\* the list and its buttons are on screen and no dialog covers them
ListOnScreen == ~loading /\ ~modalVisible /\ ~confirm.open

\* setRefreshing(false) runs in onRefresh once loadExpenses has settled
RefreshingAfterLoad == IF loadPc = "refresh" THEN FALSE ELSE refreshing

\* a load that replaced the list leaves every write in flight behind it
Superseded(ws) == [i \in 1..Len(ws) |-> [ws[i] EXCEPT !.current = FALSE]]

\* ------------------------------------------------------------ persistence
\* saveExpenses(newExpenses): the setItem call is issued and left in flight.
\* "current" records that no later setExpenses has replaced the list this
\* call was given.
saveExpenses(newExpenses) ==
  Append(Superseded(writes), [newExpenses |-> newExpenses, current |-> TRUE])

\* WriteOk, had the store kept the text of the call issued last
WriteOk_IssueOrder(i) ==
  /\ storage' = JSONstringify(writes[Len(writes)].newExpenses)
  /\ writes' = SubSeq(writes, 1, i - 1) \o SubSeq(writes, i + 1, Len(writes))
  /\ alert' = "none"
  /\ last' = "saveExpenses:stored"
  /\ UNCHANGED <<expenses, loading, refreshing, modalVisible, loadPc, confirm>>

\* the setItem of call i resolves: the whole text replaces the stored value
WriteOk(i) ==
  /\ storage' = JSONstringify(writes[i].newExpenses)
  /\ writes' = SubSeq(writes, 1, i - 1) \o SubSeq(writes, i + 1, Len(writes))
  /\ alert' = "none"
  /\ last' = "saveExpenses:stored"
  /\ UNCHANGED <<expenses, loading, refreshing, modalVisible, loadPc, confirm>>

\* WriteFail, had the catch block swallowed the error
WriteFail_Silent(i) ==
  /\ writes' = SubSeq(writes, 1, i - 1) \o SubSeq(writes, i + 1, Len(writes))
  /\ alert' = "none"
  /\ last' = "saveExpenses:failed"
  /\ UNCHANGED <<expenses, loading, refreshing, modalVisible, loadPc, storage,
                 confirm>>

\* the setItem of call i rejects: the catch block reports it
WriteFail(i) ==
  /\ writes' = SubSeq(writes, 1, i - 1) \o SubSeq(writes, i + 1, Len(writes))
  /\ alert' = "Failed to save expenses"
  /\ last' = "saveExpenses:failed"
  /\ UNCHANGED <<expenses, loading, refreshing, modalVisible, loadPc, storage,
                 confirm>>

\* what loadExpenses hands to setExpenses for a stored text
LoadedList(text) == SortNewestFirst(JSONparse(text))

\* loadExpenses resumes after getItem returned a stored text
LoadData ==
  /\ loadPc # "idle"
  /\ storage.k = "json"
  /\ expenses' = LoadedList(storage)
  /\ writes' = Superseded(writes)
  /\ loading' = FALSE
  /\ refreshing' = RefreshingAfterLoad
  /\ loadPc' = "idle"
  /\ alert' = "none"
  /\ last' = "loadExpenses:data"
  /\ UNCHANGED <<modalVisible, storage, confirm>>

\* loadExpenses resumes after getItem returned null
LoadNoData ==
  /\ loadPc # "idle"
  /\ storage.k = "none"
  /\ loading' = FALSE
  /\ refreshing' = RefreshingAfterLoad
  /\ loadPc' = "idle"
  /\ alert' = "none"
  /\ last' = "loadExpenses:nodata"
  /\ UNCHANGED <<expenses, modalVisible, storage, writes, confirm>>

\* LoadCaught, had setLoading(false) been the last statement of the try
\* block instead of a finally block
LoadCaught_NoFinally(how) ==
  /\ loading' = loading
  /\ refreshing' = RefreshingAfterLoad
  /\ loadPc' = "idle"
  /\ alert' = "Failed to load expenses"
  /\ last' = how
  /\ UNCHANGED <<expenses, modalVisible, storage, writes, confirm>>

\* what the catch and finally blocks of loadExpenses do
LoadCaught(how) ==
  /\ loading' = FALSE
  /\ refreshing' = RefreshingAfterLoad
  /\ loadPc' = "idle"
  /\ alert' = "Failed to load expenses"
  /\ last' = how
  /\ UNCHANGED <<expenses, modalVisible, storage, writes, confirm>>

\* loadExpenses resumes with a stored text that JSON.parse rejects
LoadCorrupt ==
  /\ loadPc # "idle"
  /\ storage.k = "corrupt"
  /\ LoadCaught("loadExpenses:unparsable")

\* the getItem of loadExpenses rejects
LoadReadError ==
  /\ loadPc # "idle"
  /\ LoadCaught("loadExpenses:readfailed")

\* pull to refresh: setRefreshing(true), then loadExpenses up to its await
onRefresh ==
  /\ ListOnScreen
  /\ loadPc = "idle"
  /\ refreshing' = TRUE
  /\ loading' = TRUE
  /\ loadPc' = "refresh"
  /\ alert' = "none"
  /\ last' = "onRefresh"
  /\ UNCHANGED <<expenses, modalVisible, storage, writes, confirm>>

\* ------------------------------------------------------------------ append
\* UpdatedWith, had the new record been added at the end
UpdatedWith_AtEnd(newExpense, list) == list \o <<newExpense>>

\* the list handleSaveExpense builds
UpdatedWith(newExpense, list) == <<newExpense>> \o list

\* handleSaveExpense, had it saved the list of the current render
handleSaveExpense_SavesOldList(newExpense) ==
  /\ expenses' = UpdatedWith(newExpense, expenses)
  /\ writes' = saveExpenses(expenses)

handleSaveExpense(newExpense) ==
  /\ expenses' = UpdatedWith(newExpense, expenses)
  /\ writes' = saveExpenses(UpdatedWith(newExpense, expenses))

\* the record handleSave creates; now and later are the readings of
\* Date.now() and of new Date()
NewExpense(numAmount, category, date, description, now, later) ==
  [id          |-> now,
   amount      |-> numAmount,
   category    |-> trim(category),
   date        |-> trim(date),
   description |-> trim(description),
   timestamp   |-> later]

\* the first check of handleSave
RequiredMissing(amount, category, date) ==
  amount = Empty \/ category = Empty \/ date = Empty

\* the second check of handleSave
AmountRefused(numAmount) == isNaN(numAmount) \/ LeqZero(numAmount)

\* the Save button of the form, pressed with these field values; now and
\* later are what Date.now() and new Date() return
handleSave(amount, category, date, description, now, later) ==
  /\ modalVisible
  /\ IF RequiredMissing(amount, category, date)
       THEN /\ alert' = "Please fill in all required fields"
            /\ last' = "handleSave:rejected"
            /\ UNCHANGED <<expenses, loading, refreshing, modalVisible, loadPc,
                           storage, writes, confirm>>
     ELSE IF AmountRefused(parseFloat(amount))
       THEN /\ alert' = "Please enter a valid amount"
            /\ last' = "handleSave:rejected"
            /\ UNCHANGED <<expenses, loading, refreshing, modalVisible, loadPc,
                           storage, writes, confirm>>
     ELSE /\ Len(expenses) < MaxLen
          /\ handleSaveExpense(NewExpense(parseFloat(amount), category,
                                          date, description, now, later))
          /\ modalVisible' = FALSE
          /\ alert' = "none"
          /\ last' = "handleSave:saved"
          /\ UNCHANGED <<loading, refreshing, loadPc, storage, confirm>>

\* one of the add buttons: setModalVisible(true)
OpenModal ==
  /\ ListOnScreen
  /\ modalVisible' = TRUE
  /\ alert' = "none"
  /\ last' = "openModal"
  /\ UNCHANGED <<expenses, loading, refreshing, loadPc, storage, writes, confirm>>

\* Cancel or the close button of the form
handleClose ==
  /\ modalVisible
  /\ modalVisible' = FALSE
  /\ alert' = "none"
  /\ last' = "handleClose"
  /\ UNCHANGED <<expenses, loading, refreshing, loadPc, storage, writes, confirm>>

\* ------------------------------------------------------------------ delete
\* the list the Delete button of the dialog builds
Without(id, list) == SelectSeq(list, LAMBDA expense : expense.id # id)

\* the trash button of a rendered item: the confirmation dialog opens, its
\* Delete handler closing over the list of this render
deleteExpense(id) ==
  /\ ListOnScreen
  /\ \E i \in 1..Len(expenses) : expenses[i].id = id
  /\ confirm' = [open |-> TRUE, id |-> id, expenses |-> expenses]
  /\ alert' = "Delete Expense"
  /\ last' = "deleteExpense"
  /\ UNCHANGED <<expenses, loading, refreshing, modalVisible, loadPc, storage,
                 writes>>

\* Cancel in the confirmation dialog
DeleteCancel ==
  /\ confirm.open
  /\ confirm' = NoConfirm
  /\ alert' = "none"
  /\ last' = "deleteExpense:cancelled"
  /\ UNCHANGED <<expenses, loading, refreshing, modalVisible, loadPc, storage,
                 writes>>

\* Delete in the confirmation dialog
DeleteConfirm ==
  /\ confirm.open
  /\ expenses' = Without(confirm.id, confirm.expenses)
  /\ writes' = saveExpenses(Without(confirm.id, confirm.expenses))
  /\ confirm' = NoConfirm
  /\ alert' = "none"
  /\ last' = "deleteExpense:confirmed"
  /\ UNCHANGED <<loading, refreshing, modalVisible, loadPc, storage>>

\* ----------------------------------------------------------------- restart
\* the process ends and the app is started again: React state is rebuilt,
\* calls in flight are gone, storage keeps its value
Restart ==
  /\ expenses' = <<>>
  /\ loading' = TRUE
  /\ refreshing' = FALSE
  /\ modalVisible' = FALSE
  /\ loadPc' = "mount"
  /\ writes' = <<>>
  /\ confirm' = NoConfirm
  /\ alert' = "none"
  /\ last' = "mount"
  /\ UNCHANGED storage

\* ------------------------------------------------------------------- stats
\* A clock reading counts months: Date.prototype.getMonth and getFullYear of
\* the instant it stands for (local time, twelve months to the year).
getMonth(t) == t % 12

getFullYear(t) == 1970 + (t \div 12)

\* sum + expense.amount on JS numbers; a null amount converts to 0
Plus(sum, amount) ==
  IF sum.k = "nan" \/ amount.k = "nan" THEN NaN
  ELSE IF sum.k = "inf"
    THEN (IF amount.k = "inf" /\ amount.v # sum.v THEN NaN ELSE sum)
  ELSE IF amount.k = "inf" THEN amount
  ELSE [k |-> "num", v |-> sum.v + (IF amount.k = "null" THEN 0 ELSE amount.v)]

\* list.reduce((sum, expense) => sum + expense.amount, 0)
RECURSIVE ReduceAmounts(_)
ReduceAmounts(list) ==
  IF list = <<>> THEN [k |-> "num", v |-> 0]
  ELSE Plus(ReduceAmounts(SubSeq(list, 1, Len(list) - 1)), list[Len(list)].amount)

\* the filter of getExpenseStats; thisMonth and thisYear come from two
\* readings of the clock
InMonth(expense, thisMonth, thisYear) ==
  /\ getMonth(expense.timestamp) = thisMonth
  /\ getFullYear(expense.timestamp) = thisYear

\* getExpenseStats, had the filter compared the month alone
getExpenseStats_MonthOnly(list, now, later) ==
  LET monthlyExpenses ==
        SelectSeq(list, LAMBDA expense :
                    getMonth(expense.timestamp) = getMonth(now))
  IN  [total        |-> ReduceAmounts(list),
       monthly      |-> ReduceAmounts(monthlyExpenses),
       count        |-> Len(list),
       monthlyCount |-> Len(monthlyExpenses)]

\* getExpenseStats over the list of this render; now and later are the two
\* new Date() readings
getExpenseStats(list, now, later) ==
  LET monthlyExpenses ==
        SelectSeq(list, LAMBDA expense :
                    InMonth(expense, getMonth(now), getFullYear(later)))
  IN  [total        |-> ReduceAmounts(list),
       monthly      |-> ReduceAmounts(monthlyExpenses),
       count        |-> Len(list),
       monthlyCount |-> Len(monthlyExpenses)]

\* -------------------------------------------------------- specifications
\* the candidate the store is driven with, and one the form refuses
PlainAmounts == { <<"1">>, <<"0">> }

\* a mutation is started only while fewer than room setItem calls are in flight
Room(room) == Len(writes) < room

\* The dashboard with every operation, one write in flight at a time, driven
\* with one well-formed candidate at any clock reading.
Next ==
  \/ \E i \in 1..Len(writes) : WriteOk(i)
  \/ \E i \in 1..Len(writes) : WriteFail(i)
  \/ LoadData
  \/ LoadNoData
  \/ LoadCorrupt
  \/ LoadReadError
  \/ onRefresh
  \/ OpenModal
  \/ handleClose
  \/ \E amount \in PlainAmounts, now \in Clock :
       /\ Room(1)
       /\ handleSave(amount, categories[1], formatDate(<<"1", "2", "3">>),
                     Empty, now, now)
  \/ \E id \in Clock : deleteExpense(id)
  \/ DeleteCancel
  \/ Room(1) /\ DeleteConfirm
  \/ Restart

Spec == Init /\ [][Next]_vars

\* The creation form and the append path: every field text, the clock
\* stopped at one reading, no reload after the first.
NextForm ==
  \/ \E i \in 1..Len(writes) : WriteOk(i)
  \/ \E i \in 1..Len(writes) : WriteFail(i)
  \/ LoadNoData
  \/ LoadCorrupt
  \/ LoadReadError
  \/ OpenModal
  \/ handleClose
  \/ \E amount \in AmountTexts, category \in CategoryTexts, date \in FormDates,
        description \in DescriptionTexts :
       /\ Room(1)
       /\ handleSave(amount, category, date, description, 0, 0)

SpecForm == Init /\ [][NextForm]_vars

\* readings in two months of one year and in the first of them a year later
StatsReadings == {0, 1, 12}

\* The dashboard with every operation, driven with one well-formed candidate
\* at readings that differ in month and in year.
NextMonths ==
  \/ \E i \in 1..Len(writes) : WriteOk(i)
  \/ \E i \in 1..Len(writes) : WriteFail(i)
  \/ LoadData
  \/ LoadNoData
  \/ LoadCorrupt
  \/ LoadReadError
  \/ onRefresh
  \/ OpenModal
  \/ handleClose
  \/ \E amount \in PlainAmounts, now \in StatsReadings :
       /\ Room(1)
       /\ handleSave(amount, categories[1], formatDate(<<"1", "2", "3">>),
                     Empty, now, now)
  \/ \E id \in StatsReadings : deleteExpense(id)
  \/ DeleteCancel
  \/ Room(1) /\ DeleteConfirm
  \/ Restart

SpecMonths == Init /\ [][NextMonths]_vars

\* The mutations and their writes, two setItem calls in flight at a time,
\* completing in either order: one well-formed candidate at any clock
\* reading, no reload after the first.
NextRace ==
  \/ \E i \in 1..Len(writes) : WriteOk(i)
  \/ \E i \in 1..Len(writes) : WriteFail(i)
  \/ LoadNoData
  \/ LoadCorrupt
  \/ LoadReadError
  \/ OpenModal
  \/ handleClose
  \/ \E now \in Clock :
       /\ Room(2)
       /\ handleSave(<<"1">>, categories[1], formatDate(<<"1", "2", "3">>),
                     Empty, now, now)
  \/ \E id \in Clock : deleteExpense(id)
  \/ DeleteCancel
  \/ Room(2) /\ DeleteConfirm

SpecRace == Init /\ [][NextRace]_vars

\* ------------------------------------------------------------------ claims
\* the whole text, apart from surrounding white space, is a number
IsNumericText(s) ==
  /\ trim(s) # Empty
  /\ ~isNaN(ScanFloat(trim(s)).num)
  /\ ScanFloat(trim(s)).end = Len(trim(s)) + 1

\* a candidate the claims call invalid
ClaimInvalid(amount, category, date) ==
  \/ amount = Empty
  \/ ~IsNumericText(amount)
  \/ LeqZero(parseFloat(amount))
  \/ category = Empty
  \/ date = Empty

\* a candidate the claims call valid
ClaimValid(amount, category, date) == ~ClaimInvalid(amount, category, date)

RemoveAt(list, i) == SubSeq(list, 1, i - 1) \o SubSeq(list, i + 1, Len(list))

\* two records agree on the four fields the user entered
SameFields(r, x) ==
  /\ r.amount = x.amount
  /\ r.category = x.category
  /\ r.date = x.date
  /\ r.description = x.description

\* stored is, record by record, what JSON can hold of list: every field as
\* it is, except an amount that is no finite number, which is null
SerializedAs(stored, list) ==
  /\ Len(stored) = Len(list)
  /\ \A i \in 1..Len(list) :
       /\ stored[i].id = list[i].id
       /\ stored[i].timestamp = list[i].timestamp
       /\ stored[i].category = list[i].category
       /\ stored[i].date = list[i].date
       /\ stored[i].description = list[i].description
       /\ stored[i].amount =
            (IF list[i].amount.k = "num" THEN list[i].amount ELSE Null)

\* C1 (as claimed): a submission whose amount is missing, not a number or
\* <= 0, or whose category or date is missing, is refused with an alert and
\* changes neither the list, nor the stored value, nor the writes in flight.
C1_InvalidRejected ==
  [][last' \in {"handleSave:saved", "handleSave:rejected"} =>
     \A amount \in AmountTexts, category \in CategoryTexts, date \in FormDates,
        description \in DescriptionTexts, now \in Clock :
       (ClaimInvalid(amount, category, date)
          /\ handleSave(amount, category, date, description, now, now))
       => /\ alert' # "none"
          /\ expenses' = expenses
          /\ storage' = storage
          /\ writes' = writes]_vars

\* C2 (as claimed): once a mutating operation and its storage write are
\* over, the stored list is exactly the in-memory list.
C2_StoredIsMemory ==
  (last \in {"saveExpenses:stored", "saveExpenses:failed"} /\ writes = <<>>)
    => (storage.k = "json" /\ JSONparse(storage) = expenses)

\* C2 (amended): when the write of a mutating operation succeeds and no later
\* setExpenses has replaced the list it was given, the stored value is exactly
\* the serialization of the in-memory list.
C2_CurrentWriteStoresMemory ==
  [][\A i \in 1..Len(writes) :
       (WriteOk(i) /\ writes[i].current)
       => (storage'.k = "json" /\ SerializedAs(storage'.v, expenses'))]_vars

C2_Witness ==
  /\ last = "saveExpenses:stored"
  /\ Len(expenses) = 2
  /\ storage.k = "json"
  /\ SerializedAs(storage.v, expenses)

\* C3 (as claimed): a successful save of a valid candidate puts one new
\* record at the front, its fields equal to the candidate's, and keeps the
\* records that were there, in their order.
C3_FieldsEqualCandidate ==
  [][last' = "handleSave:saved" =>
     \A amount \in AmountTexts, category \in CategoryTexts, date \in FormDates,
        description \in DescriptionTexts, now \in Clock :
       (ClaimValid(amount, category, date)
          /\ handleSave(amount, category, date, description, now, now))
       => /\ Len(expenses') = Len(expenses) + 1
          /\ Tail(expenses') = expenses
          /\ expenses'[1].amount = parseFloat(amount)
          /\ expenses'[1].category = category
          /\ expenses'[1].date = date
          /\ expenses'[1].description = description]_vars

\* C3 (amended): a successful save of a valid candidate puts one new record
\* at the front, its amount the number read from the amount text and its
\* category, date and description the candidate's without surrounding white
\* space, and keeps the records that were there, in their order.
C3_PrependsTrimmedRecord ==
  [][last' = "handleSave:saved" =>
     \A amount \in AmountTexts, category \in CategoryTexts, date \in FormDates,
        description \in DescriptionTexts, now \in Clock :
       (ClaimValid(amount, category, date)
          /\ handleSave(amount, category, date, description, now, now))
       => /\ Len(expenses') = Len(expenses) + 1
          /\ Tail(expenses') = expenses
          /\ expenses'[1].amount = parseFloat(amount)
          /\ expenses'[1].category = trim(category)
          /\ expenses'[1].date = trim(date)
          /\ expenses'[1].description = trim(description)]_vars

C3_Witness ==
  /\ last = "handleSave:saved"
  /\ Len(expenses) = 2
  /\ expenses[1] # expenses[2]
  /\ expenses[1].description = <<"a">>

\* C4 (as claimed): a confirmed delete removes exactly one record, the one
\* with the id, or nothing when no record has it; the others keep their
\* order and the resulting list is what is handed to storage.
C4_DeleteRemovesOne ==
  [][(confirm.open /\ DeleteConfirm)
       => /\ IF \E i \in 1..Len(expenses) : expenses[i].id = confirm.id
               THEN \E i \in 1..Len(expenses) :
                      /\ expenses[i].id = confirm.id
                      /\ expenses' = RemoveAt(expenses, i)
               ELSE expenses' = expenses
          /\ writes' # <<>>
          /\ writes'[Len(writes')].newExpenses = expenses']_vars

NoTwoShareId(list) ==
  \A i \in 1..Len(list) : \A j \in 1..Len(list) :
    i # j => list[i].id # list[j].id

\* C5 (as claimed): no two records of the in-memory list, nor of the stored
\* list, have the same id.
C5_IdsUnique ==
  /\ NoTwoShareId(expenses)
  /\ storage.k = "json" => NoTwoShareId(storage.v)

\* C6 (as claimed): the record a save puts in the list has amount > 0, a
\* non-empty category and a non-empty date.
C6_SavedRecordWellFormed ==
  [][last' = "handleSave:saved"
       => /\ GtZero(expenses'[1].amount)
          /\ expenses'[1].category # Empty
          /\ expenses'[1].date # Empty]_vars

\* C7 (as claimed): once the write of an append has succeeded, the list a
\* reload builds from the stored value holds a record equal to the appended
\* one in amount, category, date and description.
C7_RoundTrip ==
  [][\A i \in 1..Len(writes) :
       (WriteOk(i) /\ writes[i].newExpenses # <<>>)
       => \E j \in 1..Len(LoadedList(storage')) :
            SameFields(LoadedList(storage')[j], Head(writes[i].newExpenses))]_vars

\* C8 (as claimed): after a load that failed, the user has been told and
\* the in-memory list is empty.
C8_FailedLoadEmpties ==
  last \in {"loadExpenses:unparsable", "loadExpenses:readfailed"}
    => (alert = "Failed to load expenses" /\ expenses = <<>>)

\* C9 (as claimed): after a load that found no stored value, the in-memory
\* list is empty.
C9_NoDataEmpties ==
  (last = "loadExpenses:nodata" /\ storage.k = "none") => expenses = <<>>

\* C10 (as claimed): the list on screen is ordered by timestamp, newest
\* first.
C10_NewestFirst ==
  ~loading =>
    \A i \in 1..Len(expenses) : \A j \in 1..Len(expenses) :
      i < j => expenses[i].timestamp >= expenses[j].timestamp

\* the indices of list whose record falls in the month of now and the year
\* of later
Matching(list, now, later) ==
  {i \in 1..Len(list) :
     /\ getMonth(list[i].timestamp) = getMonth(now)
     /\ getFullYear(list[i].timestamp) = getFullYear(later)}

\* the sum of the amounts of list at the indices I, in hundredths
RECURSIVE HundredthsAt(_, _)
HundredthsAt(list, I) ==
  IF I = {} THEN 0
  ELSE LET i == CHOOSE x \in I : TRUE
       IN  (IF list[i].amount.k = "num" THEN list[i].amount.v ELSE 0)
             + HundredthsAt(list, I \ {i})

\* the sum of the amounts of list at the indices I, as a JS number
SumAt(list, I) ==
  IF \E i \in I : list[i].amount.k = "inf"
    THEN [k |-> "inf", v |-> 1]
    ELSE [k |-> "num", v |-> HundredthsAt(list, I)]

\* C11: for the list in memory and any reference readings, getExpenseStats
\* gives total = the sum of all amounts, count = the number of records,
\* monthly = the sum of the amounts of exactly the records whose timestamp
\* falls in the reference month and year, monthlyCount = their number, and
\* monthly = 0, monthlyCount = 0 when no record matches.
C11_Stats ==
  \A now \in StatsReadings : \A later \in StatsReadings :
    LET stats   == getExpenseStats(expenses, now, later)
        matches == Matching(expenses, now, later)
    IN  /\ stats.total = SumAt(expenses, 1..Len(expenses))
        /\ stats.count = Len(expenses)
        /\ stats.monthly = SumAt(expenses, matches)
        /\ stats.monthlyCount = Cardinality(matches)
        /\ matches = {} =>
             (stats.monthly = [k |-> "num", v |-> 0] /\ stats.monthlyCount = 0)

\* two records of the same month in different years, one in the reference
\* month and year
C11_Witness ==
  /\ Len(expenses) = 2
  /\ expenses[1].timestamp = 12
  /\ expenses[2].timestamp = 0
  /\ getExpenseStats(expenses, 0, 0).monthlyCount = 1
  /\ getExpenseStats(expenses, 0, 0).total = [k |-> "num", v |-> 200]
  /\ getExpenseStats(expenses, 1, 1).monthlyCount = 0

\* C12: whenever a setItem call resolves, the stored value becomes the text
\* of that call, whatever calls were issued before or after it: with two
\* calls in flight the store ends with the payload of the one that completed
\* last.
C12_LastWriteWins ==
  [][last' = "saveExpenses:stored" =>
     \E i \in 1..Len(writes) :
       /\ writes' = RemoveAt(writes, i)
       /\ storage' = JSONstringify(writes[i].newExpenses)]_vars

\* both writes of two appends are over, the second append is in the list in
\* memory, and the store holds the list of the first append only
C12_Witness ==
  /\ writes = <<>>
  /\ last = "saveExpenses:stored"
  /\ Len(expenses) = 2
  /\ storage = JSONstringify(SubSeq(expenses, 2, 2))

\* C13 (as claimed): after the write of an append or delete has failed, the
\* stored value and the list in memory are different (and stay so until a
\* later write succeeds).
C13_FailedWriteLeavesDifference ==
  last = "saveExpenses:failed" => storage # JSONstringify(expenses)

\* C13 (amended): a failed write leaves the list in memory as mutated and the
\* stored value as it was, and shows "Failed to save expenses"; the stored
\* value then changes only when a write succeeds.
C13_FailedWriteKeepsBoth ==
  [][/\ last' = "saveExpenses:failed" =>
          /\ \E i \in 1..Len(writes) : writes' = RemoveAt(writes, i)
          /\ expenses' = expenses
          /\ storage' = storage
          /\ alert' = "Failed to save expenses"
     /\ storage' # storage => last' = "saveExpenses:stored"]_vars

\* the write of a second append has failed: the record is in the list in
\* memory, the store still holds the list without it, the error is shown
C13_Witness ==
  /\ last = "saveExpenses:failed"
  /\ alert = "Failed to save expenses"
  /\ writes = <<>>
  /\ Len(expenses) = 2
  /\ storage = JSONstringify(SubSeq(expenses, 2, 2))

\* the ways a loadExpenses invocation ends once its getItem has returned
LoadEnds ==
  {"loadExpenses:data", "loadExpenses:nodata", "loadExpenses:unparsable",
   "loadExpenses:readfailed"}

\* C14: a load whose read has returned, with data, with none or with an
\* error, ends with loading = FALSE, and with refreshing = FALSE when
\* onRefresh started it; the loading and refreshing screens are shown only
\* while a read is still in flight.
C14_NeverStuck ==
  /\ []((loading \/ refreshing) => loadPc # "idle")
  /\ [][(loadPc # "idle" /\ last' \in LoadEnds) =>
          /\ loadPc' = "idle"
          /\ ~loading'
          /\ loadPc = "refresh" => ~refreshing']_vars

\* a pull to refresh whose read failed is over: the list, still holding its
\* record, is back on screen
C14_Witness ==
  /\ last = "loadExpenses:readfailed"
  /\ Len(expenses) > 0
  /\ ~loading
  /\ ~refreshing

====
